---- MODULE Spec2Model ----
(***************************************************************************)
(* Model of listup_precedent (src/src/main.rs): the scraper that walks the *)
(* listing pages of the court-decision search site, follows every detail   *)
(* link, dispatches the label/value pairs of the detail page into the      *)
(* record slots, parses the era date and writes one file per record plus   *)
(* an index entry.                                                         *)
(*                                                                         *)
(* Strings are sequences of one-character strings, so that trimming, line  *)
(* splitting and the regular expressions are computed, not assumed.        *)
(***************************************************************************)
EXTENDS Integers, Sequences, FiniteSets, TLC

(***************************************************************************)
(* Bounds of the model.                                                    *)
(***************************************************************************)
MaxQuantity == 11
MaxPerPage == 2
MaxPairs == 2
MaxEraYear == 3

(***************************************************************************)
(* Characters and strings.  A character outside ASCII is written as a      *)
(* token: "sho" "wa" "hei" "sei" "rei" "tai" "shou" are the characters of  *)
(* the era names Showa, Heisei, Reiwa and Taisho, "gan" is the "first      *)
(* year" character, "nen" "gatsu" "nichi" are the year, month and day      *)
(* markers, "w3" is the full-width digit three.                            *)
(***************************************************************************)
AsciiDigits == {"0", "1", "2", "3", "4", "5", "6", "7", "8", "9"}

\* A full-width digit: matched by the regex class \d (Unicode Nd) but not
\* excluded by [^0-9] and not accepted by str::parse::<usize>.
WideDigits == {"w3"}

IsAsciiDigit(c) == c \in AsciiDigits

IsReDigit(c) == c \in AsciiDigits \cup WideDigits

IsWhite(c) == c \in {" ", "\n", "\t"}

DigitVal(c) ==
  CASE c = "0" -> 0 [] c = "1" -> 1 [] c = "2" -> 2 [] c = "3" -> 3
    [] c = "4" -> 4 [] c = "5" -> 5 [] c = "6" -> 6 [] c = "7" -> 7
    [] c = "8" -> 8 [] c = "9" -> 9 [] OTHER -> 0

Min(S) == CHOOSE x \in S : \A y \in S : x <= y

Max(S) == CHOOSE x \in S : \A y \in S : y <= x

Slice(s, a, b) == [k \in 1..(b - a + 1) |-> s[a + k - 1]]

\* str::parse::<usize>: every character an ASCII digit, at least one.
ParseOk(s) == Len(s) > 0 /\ \A k \in 1..Len(s) : IsAsciiDigit(s[k])

RECURSIVE ParseUsize(_)
ParseUsize(s) ==
  IF Len(s) = 0 THEN 0
  ELSE 10 * ParseUsize(Slice(s, 1, Len(s) - 1)) + DigitVal(s[Len(s)])

\* str::trim
Trim(s) ==
  LET keep == {k \in 1..Len(s) : ~IsWhite(s[k])}
  IN IF keep = {} THEN <<>> ELSE Slice(s, Min(keep), Max(keep))

\* str::lines: split at "\n"; a final empty line is not produced.
RECURSIVE Lines(_)
Lines(s) ==
  IF Len(s) = 0 THEN <<>>
  ELSE LET nl == {k \in 1..Len(s) : s[k] = "\n"}
       IN IF nl = {} THEN <<s>>
          ELSE <<Slice(s, 1, Min(nl) - 1)>> \o Lines(Slice(s, Min(nl) + 1, Len(s)))

RECURSIVE Concat(_)
Concat(ss) == IF Len(ss) = 0 THEN <<>> ELSE Head(ss) \o Concat(Tail(ss))

remove_line_break(str) ==
  LET ls == Lines(str)
  IN Concat([k \in 1..Len(ls) |-> Trim(ls[k])])

(***************************************************************************)
(* parse_date_era_str.                                                     *)
(***************************************************************************)
\* End of the greedy \d+ run that starts at position j (first position after it).
RunEnd(s, j) ==
  LET stop == {k \in j..Len(s) : ~IsReDigit(s[k])}
  IN IF stop = {} THEN Len(s) + 1 ELSE Min(stop)

\* \d+ <mark> at position j: the position after the mark, or 0 when no match.
DigitsThen(s, j, mark) ==
  IF j < 1 \/ j > Len(s) \/ ~IsReDigit(s[j]) THEN 0
  ELSE LET e == RunEnd(s, j)
       IN IF e <= Len(s) /\ s[e] = mark THEN e + 1 ELSE 0

\* (?P<month>\d+)gatsu(?P<day>\d+)nichi at position j.
MonthDayAt(s, j) ==
  LET d == DigitsThen(s, j, "gatsu")
  IN d # 0 /\ DigitsThen(s, d, "nichi") # 0

\* The first position i such that s[i..j-1] holds no ASCII digit (j when
\* there is none): [^0-9]+ can start at i..j-1 and end right before j.
EraStart(s, j) ==
  LET digits == {k \in 1..(j - 1) : IsAsciiDigit(s[k])}
  IN IF digits = {} THEN 1 ELSE Max(digits) + 1

\* Positions j where (?P<era_year>\d+)nen(?P<month>\d+)gatsu(?P<day>\d+)nichi
\* matches and a non-empty era can end right before j.
ReMatches(s) ==
  {j \in 2..Len(s) :
     /\ EraStart(s, j) < j
     /\ LET y == DigitsThen(s, j, "nen") IN y # 0 /\ MonthDayAt(s, y)}

\* Positions j where gannen(?P<month>\d+)gatsu(?P<day>\d+)nichi matches and a
\* non-empty era can end right before j.
ReGanMatches(s) ==
  {j \in 2..(Len(s) - 1) :
     /\ EraStart(s, j) < j
     /\ s[j] = "gan" /\ s[j + 1] = "nen"
     /\ MonthDayAt(s, j + 2)}

\* Regex::captures: the leftmost start i of the era, then the longest era
\* (greedy): <<i, j>> with era = s[i..j-1].
Captures(s, ms) ==
  LET i == Min({EraStart(s, j) : j \in ms})
  IN <<i, Max({j \in ms : EraStart(s, j) <= i})>>

EraOf(name) ==
  CASE name = <<"sho", "wa">> -> "Showa"
    [] name = <<"hei", "sei">> -> "Heisei"
    [] name = <<"rei", "wa">> -> "Reiwa"
    [] OTHER -> "none"

DateErr(e) == [ok |-> FALSE, err |-> e, era |-> "none", year |-> 0, month |-> 0, day |-> 0]

\* The tail after the era year (or after "gannen"): month and day captures.
MonthDay(s, era, era_year, j) ==
  LET mEnd == RunEnd(s, j)
      month == Slice(s, j, mEnd - 1)
      dEnd == RunEnd(s, mEnd + 1)
      day == Slice(s, mEnd + 1, dEnd - 1)
  IN IF EraOf(era) = "none" THEN DateErr("UnknownEra")
     ELSE IF ~ParseOk(month) \/ ~ParseOk(day) THEN DateErr("ParseInt")
     ELSE [ok |-> TRUE, err |-> "", era |-> EraOf(era), year |-> era_year,
           month |-> ParseUsize(month), day |-> ParseUsize(day)]

parse_date_era_str(str) ==
  LET re == ReMatches(str)
  IN IF re # {}
     THEN LET c == Captures(str, re)
              era == Slice(str, c[1], c[2] - 1)
              yEnd == RunEnd(str, c[2])
              era_year == Slice(str, c[2], yEnd - 1)
          IN IF ~ParseOk(era_year) THEN DateErr("ParseInt")
             ELSE MonthDay(str, era, ParseUsize(era_year), yEnd + 1)
     ELSE LET re_gan == ReGanMatches(str)
          IN IF re_gan # {}
             THEN LET c == Captures(str, re_gan)
                      era == Slice(str, c[1], c[2] - 1)
                  IN MonthDay(str, era, 1, c[2] + 2)
             ELSE DateErr("NoMatch")

(***************************************************************************)
(* The listing summary and the detail links.                               *)
(***************************************************************************)
RECURSIVE ToDigits(_)
ToDigits(n) ==
  LET d == <<"0", "1", "2", "3", "4", "5", "6", "7", "8", "9">>[(n % 10) + 1]
  IN IF n < 10 THEN <<d>> ELSE ToDigits(n \div 10) \o <<d>>

\* The text "<N> ken chu 1 - 10 ken wo hyouji" of the first listing page.
SummaryText(n) == ToDigits(n) \o <<"ken", "chu", "1", "~", "1", "0", "ken">>

\* Regex \d+, captures(..)[0]: the leftmost, longest run of digits.
FirstDigitRun(s) ==
  LET starts == {k \in 1..Len(s) : IsReDigit(s[k])}
  IN IF starts = {} THEN <<>> ELSE Slice(s, Min(starts), RunEnd(s, Min(starts)) - 1)

PageQuantity_Floor(all_quantity) == all_quantity \div 10

\* Lines 247-252.
PageQuantity(all_quantity) ==
  IF all_quantity % 10 = 0 THEN all_quantity \div 10 ELSE (all_quantity \div 10) + 1

COURTS_DOMEIN == <<"https://www.courts.go.jp">>

\* Sample hrefs of the detail anchors of a listing page.
Links ==
  { <<"/", "d", "2", "?", "i", "=", "5">>,      \* detail2?i=5
    <<"/", "d", "9", "?", "i", "=", "5">>,      \* digit outside 2..7
    <<"/", "d", "?", "i">>,                     \* no digit at all
    <<"/", "d", "3">> }                         \* no query string

\* link_re [^\d]+(?P<type_number>\d).* : the position of the captured digit, or 0.
TypeNumberAt(link) ==
  LET hits == {k \in 2..Len(link) : IsReDigit(link[k]) /\ ~IsReDigit(link[k - 1])}
  IN IF hits = {} THEN 0 ELSE Min(hits)

TrialTypeOf(n) ==
  CASE n = 2 -> "SupremeCourt" [] n = 3 -> "HighCourt" [] n = 4 -> "LowerCourt"
    [] n = 5 -> "AdministrativeCase" [] n = 6 -> "LaborCase" [] n = 7 -> "IPCase"
    [] OTHER -> "unreachable"

\* get_lawsuit_id: the value of the first query pair, <<"NO_ID">> when the
\* url has no query pair.
NoId == <<"NO_ID">>

get_lawsuit_id(url) ==
  LET q == {k \in 1..Len(url) : url[k] = "?"}
  IN IF q = {} \/ Min(q) = Len(url) THEN NoId
     ELSE LET query == Slice(url, Min(q) + 1, Len(url))
              amp == {k \in 1..Len(query) : query[k] = "&"}
              pair == IF amp = {} THEN query ELSE Slice(query, 1, Min(amp) - 1)
              eq == {k \in 1..Len(pair) : pair[k] = "="}
          IN IF eq = {} THEN <<>> ELSE Slice(pair, Min(eq) + 1, Len(pair))

(***************************************************************************)
(* The record slots and the dispatch of one dl element.                    *)
(***************************************************************************)
RequiredText == {"date_str", "case_number", "case_name", "court_name", "full_pdf_link"}

OptionalText ==
  {"right_type", "lawsuit_type", "result_type", "result", "article_info",
   "original_court_name", "original_case_number", "original_result",
   "field", "gist", "case_gist", "ref_law"}

SlotNames == RequiredText \cup OptionalText \cup {"original_date"}

NoDate == [ok |-> FALSE, err |-> "", era |-> "none", year |-> 0, month |-> 0, day |-> 0]

None == [some |-> FALSE, v |-> <<>>]

Some(x) == [some |-> TRUE, v |-> x]

NoneDate == [some |-> FALSE, v |-> NoDate]

\* Lines 295-312.
InitSlots ==
  [s \in SlotNames |->
     IF s \in RequiredText THEN <<>>
     ELSE IF s = "original_date" THEN NoneDate ELSE None]

\* The labels of the match at lines 326-551, written in romaji.
RequiredLabels ==
  {"jiken_bangou", "jiken_mei", "saiban_nengappi",
   "saibansho_mei", "saibansho_mei_bu", "houtei_mei"}

OptionalLabels ==
  {"kenri_shubetsu", "soshou_ruikei", "saiban_shubetsu", "kekka",
   "hanreishuu_kan_gou_peiji", "kousai_hanreishuu_kan_gou_peiji",
   "genshin_saibansho_mei", "genshin_jiken_bangou", "genshin_kekka",
   "bunya", "hanji_jikou_no_youshi", "hanji_jikou", "saiban_youshi",
   "sanshou_houjou"}

KnownLabels == RequiredLabels \cup OptionalLabels \cup {"genshin_saiban_nengappi", "zenbun"}

\* Labels the match does not know (the arm at line 551).
OtherLabels == {"sonota"}

SlotOf(dt_text) ==
  CASE dt_text = "jiken_bangou" -> "case_number"
    [] dt_text = "jiken_mei" -> "case_name"
    [] dt_text = "saiban_nengappi" -> "date_str"
    [] dt_text \in {"saibansho_mei", "saibansho_mei_bu", "houtei_mei"} -> "court_name"
    [] dt_text = "kenri_shubetsu" -> "right_type"
    [] dt_text = "soshou_ruikei" -> "lawsuit_type"
    [] dt_text = "saiban_shubetsu" -> "result_type"
    [] dt_text = "kekka" -> "result"
    [] dt_text \in {"hanreishuu_kan_gou_peiji", "kousai_hanreishuu_kan_gou_peiji"} -> "article_info"
    [] dt_text = "genshin_saibansho_mei" -> "original_court_name"
    [] dt_text = "genshin_jiken_bangou" -> "original_case_number"
    [] dt_text = "genshin_kekka" -> "original_result"
    [] dt_text = "genshin_saiban_nengappi" -> "original_date"
    [] dt_text = "bunya" -> "field"
    [] dt_text \in {"hanji_jikou_no_youshi", "hanji_jikou"} -> "gist"
    [] dt_text = "saiban_youshi" -> "case_gist"
    [] dt_text = "sanshou_houjou" -> "ref_law"
    [] dt_text = "zenbun" -> "full_pdf_link"
    [] OTHER -> "none"

\* A dd without the selected element, and an anchor without href.
NoElement == <<"NO_ELEMENT">>

NoHref == <<"NO_HREF">>

\* Sample texts of a "dd > p" element.
RawTexts == { <<" ">>, <<" ", "a", "\n", " ", "b", " ">> }

DateTexts ==
  { <<" ">>,
    <<" ", "rei", "wa", "gan", "nen", "5", "gatsu", "1", "nichi">>,
    <<"tai", "shou", "5", "nen", "1", "gatsu", "1", "nichi">> }

Hrefs == { <<"/", "f", ".", "p", "d", "f">> }

\* The dd contents the model draws for a label.
ValuesOf(dt_text) ==
  IF dt_text = "zenbun" THEN Hrefs \cup {NoHref, NoElement}
  ELSE IF dt_text \in {"saiban_nengappi", "genshin_saiban_nengappi"}
  THEN DateTexts \cup {NoElement}
  ELSE IF dt_text \in KnownLabels THEN RawTexts \cup {NoElement}
  ELSE {<<"a">>}

\* The result of an arm: the slots after it, and the error that ended the
\* run, if any ("" when the arm completed).
ArmOk(new) == [slots |-> new, err |-> ""]

ArmFail(slots, e) == [slots |-> slots, err |-> e]

RequiredArm_CopyPaste(slots, dt_text, text) ==
  IF dt_text \in {"saibansho_mei", "saibansho_mei_bu", "houtei_mei"}
  THEN ArmOk([slots EXCEPT !["court_name"] = remove_line_break(text)])
  ELSE IF dt_text = "jiken_mei"
  THEN ArmOk([slots EXCEPT !["case_number"] = text])
  ELSE ArmOk([slots EXCEPT ![SlotOf(dt_text)] = text])

\* Lines 327-370: the arms of the required text labels.
RequiredArm(slots, dt_text, text) ==
  IF dt_text \in {"saibansho_mei", "saibansho_mei_bu", "houtei_mei"}
  THEN ArmOk([slots EXCEPT !["court_name"] = remove_line_break(text)])
  ELSE ArmOk([slots EXCEPT ![SlotOf(dt_text)] = text])

OptionalArm_SomeEmpty(slots, dt_text, text) ==
  ArmOk([slots EXCEPT ![SlotOf(dt_text)] = Some(text)])

\* Lines 371-474 and 489-540: the arms of the optional text labels.
OptionalArm(slots, dt_text, text) ==
  IF text # <<>> THEN ArmOk([slots EXCEPT ![SlotOf(dt_text)] = Some(text)])
  ELSE ArmOk(slots)

OriginalDateArm_Lenient(slots, text) ==
  IF text # <<>>
  THEN LET date == parse_date_era_str(text)
       IN IF date.ok THEN ArmOk([slots EXCEPT !["original_date"] = Some(date)])
          ELSE ArmOk(slots)
  ELSE ArmOk(slots)

\* Lines 475-488: the arm of the originating-court date.
OriginalDateArm(slots, text) ==
  IF text # <<>>
  THEN LET date == parse_date_era_str(text)
       IN IF date.ok THEN ArmOk([slots EXCEPT !["original_date"] = Some(date)])
          ELSE ArmFail(slots, date.err)
  ELSE ArmOk(slots)

FullTextArm_SkipMissingHref(slots, dd) ==
  IF dd = NoElement THEN ArmFail(slots, "panic_unwrap")
  ELSE IF dd = NoHref THEN ArmOk(slots)
  ELSE ArmOk([slots EXCEPT !["full_pdf_link"] = COURTS_DOMEIN \o dd])

\* Lines 541-550: the arm of the full-text link.
FullTextArm(slots, dd) ==
  IF dd = NoElement THEN ArmFail(slots, "panic_unwrap")
  ELSE IF dd = NoHref THEN ArmFail(slots, "panic_expect_href")
  ELSE ArmOk([slots EXCEPT !["full_pdf_link"] = COURTS_DOMEIN \o dd])

\* The match at lines 326-552 on one dl element.
Dispatch(slots, dt_text, dd) ==
  IF dt_text \notin KnownLabels THEN ArmOk(slots)
  ELSE IF dt_text = "zenbun" THEN FullTextArm(slots, dd)
  ELSE IF dd = NoElement THEN ArmFail(slots, "panic_unwrap")
  ELSE IF dt_text \in RequiredLabels THEN RequiredArm(slots, dt_text, Trim(dd))
  ELSE IF dt_text = "genshin_saiban_nengappi" THEN OriginalDateArm(slots, Trim(dd))
  ELSE OptionalArm(slots, dt_text, Trim(dd))

(***************************************************************************)
(* The run of main.                                                        *)
(***************************************************************************)
VARIABLES
  pc,                 \* position in main
  err,                \* the error that ended the run, "" while none
  all_quantity_text,  \* lines 239-244
  all_quantity,       \* line 246
  all_page_quantity,  \* lines 247-252
  page_num,           \* the page the outer loop is at, 0 before the first
  requested,          \* listing pages requested by the walk, in order
  n_links,            \* detail anchors of the current listing page
  li,                 \* anchors of the current page taken from the stream
  link,               \* href of the anchor taken last, line 267
  trial_type,         \* lines 272-287
  lawsuit_id,         \* line 289
  slots,              \* the locals of lines 295-312
  info_element,       \* the dl element dispatched last
  n_info,             \* dl elements of the current detail page dispatched
  precedent_data,     \* lines 555-578
  files,              \* records written by write_data, in order
  index,              \* entries written by write_value_lst, in order
  index_opens,        \* calls of gen_file_value_lst that succeeded
  index_flushes,      \* calls of flush_file_value_lst that succeeded
  sleeps,             \* pages after which the walk slept, in order
  present_on_page,    \* history: the optional slots a dl element of the current
                      \* detail page carried a non-empty value for
  earlier_present,    \* history: an earlier record had an optional field present
  labels,             \* the dt texts the detail pages of the site use
  era_text,           \* input of a direct call of parse_date_era_str
  era_date            \* its result

vars ==
  <<pc, err, all_quantity_text, all_quantity, all_page_quantity, page_num,
    requested, n_links, li, link, trial_type, lawsuit_id, slots, info_element, n_info, precedent_data,
    files, index, index_opens, index_flushes, sleeps, present_on_page, earlier_present,
    labels, era_text, era_date>>

runVars ==
  <<pc, err, all_quantity_text, all_quantity, all_page_quantity, page_num,
    requested, n_links, li, link, trial_type, lawsuit_id, slots, info_element, n_info, precedent_data,
    files, index, index_opens, index_flushes, sleeps, present_on_page, earlier_present>>

NoInfo == [dt |-> "", dd |-> <<>>]

NoData == [emitted |-> FALSE]

RunInit ==
  /\ pc = "start"
  /\ err = ""
  /\ all_quantity_text = <<>>
  /\ all_quantity = 0
  /\ all_page_quantity = 0
  /\ page_num = 0
  /\ requested = <<>>
  /\ n_links = 0
  /\ li = 0
  /\ link = <<>>
  /\ trial_type = ""
  /\ lawsuit_id = <<>>
  /\ slots = InitSlots
  /\ info_element = NoInfo
  /\ n_info = 0
  /\ precedent_data = NoData
  /\ files = <<>>
  /\ index = <<>>
  /\ index_opens = 0
  /\ index_flushes = 0
  /\ sleeps = <<>>
  /\ present_on_page = {}
  /\ earlier_present = FALSE

\* The labels the detail pages of a whole run are drawn from: every kind of
\* arm of the match once, and two spellings of the court name.
RunLabels ==
  {"jiken_bangou", "saiban_nengappi", "saibansho_mei", "houtei_mei",
   "kenri_shubetsu", "genshin_saiban_nengappi", "zenbun", "sonota"}

Init == RunInit /\ labels = RunLabels /\ era_text = <<>> /\ era_date = NoDate

\* An error returned by "?" or a panic: main ends and its locals are dropped;
\* the counters stay as the record of where the run ended, elem is the dl
\* element that was being dispatched, if any.
HaltAt(e, elem) ==
  /\ pc' = "halted"
  /\ err' = e
  /\ trial_type' = ""
  /\ lawsuit_id' = <<>>
  /\ slots' = InitSlots
  /\ info_element' = elem
  /\ precedent_data' = NoData
  /\ UNCHANGED <<all_quantity, all_page_quantity, n_links, n_info,
                 index_opens, index_flushes, sleeps>>

Halt(e) == HaltAt(e, NoInfo)

\* The summary texts the first listing page may carry.
Quantities == {n \in 0..MaxQuantity : n % 10 \in {0, 1, 9}}

Summaries == {SummaryText(n) : n \in Quantities} \cup {NoElement, <<"ken">>}

\* Lines 226-257: arguments, the first listing page, the count, the index file.
Start ==
  /\ pc = "start"
  /\ \E args_ok \in BOOLEAN, fetch_ok \in BOOLEAN, open_ok \in BOOLEAN,
        text \in Summaries :
       IF ~args_ok THEN Halt("args") /\ UNCHANGED <<all_quantity_text, page_num, requested, li, files, index>>
       ELSE IF ~fetch_ok THEN Halt("fetch") /\ UNCHANGED <<all_quantity_text, page_num, requested, li, files, index>>
       ELSE IF text = NoElement \/ FirstDigitRun(text) = <<>>
       THEN /\ Halt("panic_unwrap") /\ all_quantity_text' = text
            /\ UNCHANGED <<page_num, requested, li, files, index>>
       ELSE IF ~ParseOk(FirstDigitRun(text))
       THEN /\ Halt("ParseInt") /\ all_quantity_text' = text
            /\ UNCHANGED <<page_num, requested, li, files, index>>
       ELSE IF ~open_ok
       THEN /\ Halt("io") /\ all_quantity_text' = text
            /\ UNCHANGED <<page_num, requested, li, files, index>>
       ELSE /\ all_quantity_text' = text
            /\ all_quantity' = ParseUsize(FirstDigitRun(text))
            /\ all_page_quantity' = PageQuantity(all_quantity')
            /\ index_opens' = index_opens + 1
            /\ pc' = "page"
            /\ UNCHANGED <<err, page_num, requested, n_links, li, trial_type, lawsuit_id,
                           slots, info_element, n_info, precedent_data, files, index,
                           index_flushes, sleeps>>
  /\ UNCHANGED <<link, labels, era_text, era_date, present_on_page, earlier_present>>

\* Lines 258-265: the outer stream yields the next page, which is requested.
WalkPage ==
  /\ pc = "page"
  /\ page_num < all_page_quantity
  /\ \E fetch_ok \in BOOLEAN, n \in 0..MaxPerPage :
       /\ page_num' = page_num + 1
       /\ requested' = Append(requested, page_num + 1)
       /\ IF fetch_ok
          THEN /\ pc' = "links" /\ n_links' = n /\ li' = 0
               /\ UNCHANGED <<err, all_quantity, all_page_quantity, trial_type,
                              lawsuit_id, slots, info_element, n_info, precedent_data,
                              index_opens, index_flushes, sleeps>>
          ELSE Halt("fetch") /\ li' = 0
  /\ UNCHANGED <<all_quantity_text, link, files, index, labels, era_text, era_date, present_on_page, earlier_present>>

NextLink_KeepSlots ==
  /\ pc = "links"
  /\ li < n_links
  /\ \E href \in Links, fetch_ok \in BOOLEAN :
       LET at == TypeNumberAt(href)
           detail_page_link == COURTS_DOMEIN \o href
       IN /\ li' = li + 1
          /\ link' = href
          /\ IF at = 0 THEN Halt("link_shape")
             ELSE IF ~ParseOk(<<href[at]>>) THEN Halt("ParseInt")
             ELSE IF TrialTypeOf(DigitVal(href[at])) = "unreachable"
             THEN Halt("panic_unreachable")
             ELSE IF get_lawsuit_id(detail_page_link) = NoId THEN Halt("link_no_id")
             ELSE IF ~fetch_ok THEN Halt("fetch")
             ELSE /\ trial_type' = TrialTypeOf(DigitVal(href[at]))
                  /\ lawsuit_id' = get_lawsuit_id(detail_page_link)
                  /\ pc' = "info"
                  /\ slots' = slots /\ n_info' = 0 /\ info_element' = NoInfo
                  /\ UNCHANGED <<err, all_quantity, all_page_quantity, n_links,
                                 precedent_data, index_opens, index_flushes, sleeps>>
  /\ present_on_page' = {}
  /\ UNCHANGED <<all_quantity_text, page_num, requested, files, index, labels,
                 era_text, era_date, earlier_present>>

\* Lines 266-313: the next detail anchor, its trial type and id, the detail
\* page, and the fresh slots.
NextLink ==
  /\ pc = "links"
  /\ li < n_links
  /\ \E href \in Links, fetch_ok \in BOOLEAN :
       LET at == TypeNumberAt(href)
           detail_page_link == COURTS_DOMEIN \o href
       IN /\ li' = li + 1
          /\ link' = href
          /\ IF at = 0 THEN Halt("link_shape")
             ELSE IF ~ParseOk(<<href[at]>>) THEN Halt("ParseInt")
             ELSE IF TrialTypeOf(DigitVal(href[at])) = "unreachable"
             THEN Halt("panic_unreachable")
             ELSE IF get_lawsuit_id(detail_page_link) = NoId THEN Halt("link_no_id")
             ELSE IF ~fetch_ok THEN Halt("fetch")
             ELSE /\ trial_type' = TrialTypeOf(DigitVal(href[at]))
                  /\ lawsuit_id' = get_lawsuit_id(detail_page_link)
                  /\ pc' = "info"
                  /\ slots' = InitSlots /\ n_info' = 0 /\ info_element' = NoInfo
                  /\ UNCHANGED <<err, all_quantity, all_page_quantity, n_links,
                                 precedent_data, index_opens, index_flushes, sleeps>>
  /\ present_on_page' = {}
  /\ UNCHANGED <<all_quantity_text, page_num, requested, files, index, labels,
                 era_text, era_date, earlier_present>>

\* History: the optional slots the dl element <dt_text, dd> carries a
\* non-empty value for (the text of "dd > p" after trim, line 371 and alike).
PresentOf(dt_text, dd) ==
  IF /\ SlotOf(dt_text) \in OptionalText \cup {"original_date"}
     /\ dd # NoElement
     /\ Trim(dd) # <<>>
  THEN {SlotOf(dt_text)} ELSE {}

\* History: the record carries an optional field.
HasOptional(data) ==
  \/ \E s \in OptionalText : data.optional[s].some
  \/ data.original_date.some

\* Lines 314-553, one turn of the loop: the next dl element is dispatched.
DispatchInfo ==
  /\ pc = "info"
  /\ n_info < MaxPairs
  /\ \E dt_text \in labels :
       \E dd \in ValuesOf(dt_text) :
         LET r == Dispatch(slots, dt_text, dd)
         IN /\ IF r.err = ""
               THEN /\ info_element' = [dt |-> dt_text, dd |-> dd]
                    /\ n_info' = n_info + 1
                    /\ slots' = r.slots
                    /\ UNCHANGED <<pc, err, all_quantity, all_page_quantity, n_links,
                                   trial_type, lawsuit_id, precedent_data, index_opens,
                                   index_flushes, sleeps>>
               ELSE HaltAt(r.err, [dt |-> dt_text, dd |-> dd])
            /\ present_on_page' =
                 IF r.err = "" THEN present_on_page \cup PresentOf(dt_text, dd)
                 ELSE present_on_page
  /\ UNCHANGED <<all_quantity_text, link, page_num, requested, li, files, index,
                 labels, era_text, era_date, earlier_present>>

\* Line 554.
DateOf(s) == parse_date_era_str(Trim(s["date_str"]))

IndexAfter_SkipNoContents(idx, data) ==
  IF data.contents.some THEN Append(idx, data.key) ELSE idx

\* Lines 579-588: the summary of the record is appended to the index.
IndexAfter(idx, data) == Append(idx, data.key)

\* The record of lines 555-578.
Assemble(date, contents) ==
  [emitted |-> TRUE,
   key |-> <<page_num, li>>,
   trial_type |-> trial_type,
   date |-> date,
   case_number |-> slots["case_number"],
   case_name |-> slots["case_name"],
   court_name |-> slots["court_name"],
   lawsuit_id |-> lawsuit_id,
   detail_page_link |-> COURTS_DOMEIN \o link,
   full_pdf_link |-> slots["full_pdf_link"],
   contents |-> contents,
   optional |-> [s \in OptionalText |-> slots[s]],
   original_date |-> slots["original_date"]]

\* Lines 554-587: the stream of dl elements has ended; the date is parsed,
\* the record is assembled and its file is written.
EmitFile ==
  /\ pc = "info"
  /\ LET date == DateOf(slots) IN
     \E pdf_ok \in BOOLEAN, write_ok \in BOOLEAN :
       LET contents == IF pdf_ok /\ slots["full_pdf_link"] # <<>>
                       THEN Some(<<"t">>) ELSE None
       IN IF ~date.ok THEN Halt(date.err) /\ files' = files
          ELSE IF ~write_ok THEN Halt("io") /\ files' = files
          ELSE /\ precedent_data' = Assemble(date, contents)
               /\ files' = Append(files, <<page_num, li>>)
               /\ pc' = "index"
               /\ UNCHANGED <<err, all_quantity, all_page_quantity, n_links, trial_type,
                              lawsuit_id, slots, info_element, n_info, index_opens,
                              index_flushes, sleeps>>
  /\ UNCHANGED <<all_quantity_text, link, page_num, requested, li, index,
                 labels, era_text, era_date, present_on_page, earlier_present>>

\* Lines 588-590: the index entry of the record is appended and the locals
\* of the turn go out of scope (the slots keep their last values until the
\* next turn declares them again).
EmitIndex ==
  /\ pc = "index"
  /\ \E write_ok \in BOOLEAN :
       IF ~write_ok THEN Halt("io") /\ index' = index /\ earlier_present' = earlier_present
       ELSE /\ index' = IndexAfter(index, precedent_data)
            /\ earlier_present' = (earlier_present \/ HasOptional(precedent_data))
            /\ pc' = "links"
            /\ precedent_data' = NoData
            /\ info_element' = NoInfo
            /\ UNCHANGED <<err, all_quantity, all_page_quantity, n_links, trial_type,
                           lawsuit_id, slots, n_info, index_opens, index_flushes, sleeps>>
  /\ UNCHANGED <<all_quantity_text, link, page_num, requested, li, files,
                 labels, era_text, era_date, present_on_page>>

Sleep_Early ==
  /\ pc = "links"
  /\ li <= n_links
  /\ sleeps' = Append(sleeps, page_num)
  /\ pc' = "page"
  /\ UNCHANGED <<err, all_quantity, all_page_quantity, page_num, requested, n_links, li,
                 trial_type, lawsuit_id, slots, info_element, n_info, precedent_data,
                 files, index, index_opens, index_flushes, all_quantity_text, link,
                 labels, era_text, era_date, present_on_page, earlier_present>>

\* Lines 591-593: the anchors of the page are used up; the walk sleeps.
Sleep ==
  /\ pc = "links"
  /\ li = n_links
  /\ sleeps' = Append(sleeps, page_num)
  /\ pc' = "page"
  /\ UNCHANGED <<err, all_quantity, all_page_quantity, page_num, requested, n_links, li,
                 trial_type, lawsuit_id, slots, info_element, n_info, precedent_data,
                 files, index, index_opens, index_flushes, all_quantity_text, link,
                 labels, era_text, era_date, present_on_page, earlier_present>>

\* Lines 595-597: the outer stream has ended; the index file is flushed.
Finish ==
  /\ pc = "page"
  /\ page_num >= all_page_quantity
  /\ \E flush_ok \in BOOLEAN :
       IF ~flush_ok THEN Halt("io_flush")
       ELSE /\ index_flushes' = index_flushes + 1
            /\ pc' = "done"
            /\ UNCHANGED <<err, all_quantity, all_page_quantity, n_links, trial_type,
                           lawsuit_id, slots, info_element, n_info, precedent_data,
                           index_opens, sleeps>>
  /\ UNCHANGED <<all_quantity_text, link, page_num, requested, li, files, index,
                 labels, era_text, era_date, present_on_page, earlier_present>>

Next ==
  \/ Start
  \/ WalkPage
  \/ NextLink
  \/ DispatchInfo
  \/ EmitFile
  \/ EmitIndex
  \/ Sleep
  \/ Finish

Spec == Init /\ [][Next]_vars

(***************************************************************************)
(* The traversal of one detail page, over every label of the match: the    *)
(* run is taken up where NextLink has left it at the only anchor of a      *)
(* one-page listing.                                                       *)
(***************************************************************************)
InitDetail ==
  /\ pc = "info"
  /\ err = ""
  /\ all_quantity_text = SummaryText(1)
  /\ all_quantity = 1
  /\ all_page_quantity = PageQuantity(1)
  /\ page_num = 1
  /\ requested = <<1>>
  /\ n_links = 1
  /\ li = 1
  /\ link = <<"/", "d", "2", "?", "i", "=", "5">>
  /\ trial_type = TrialTypeOf(2)
  /\ lawsuit_id = get_lawsuit_id(COURTS_DOMEIN \o link)
  /\ slots = InitSlots
  /\ info_element = NoInfo
  /\ n_info = 0
  /\ precedent_data = NoData
  /\ files = <<>>
  /\ index = <<>>
  /\ index_opens = 1
  /\ index_flushes = 0
  /\ sleeps = <<>>
  /\ present_on_page = {}
  /\ earlier_present = FALSE
  /\ labels = KnownLabels \cup OtherLabels
  /\ era_text = <<>>
  /\ era_date = NoDate

NextDetail ==
  \/ DispatchInfo
  \/ EmitFile
  \/ EmitIndex

SpecDetail == InitDetail /\ [][NextDetail]_vars

(***************************************************************************)
(* Direct calls of parse_date_era_str.                                     *)
(***************************************************************************)
EraNames == { <<"sho", "wa">>, <<"hei", "sei">>, <<"rei", "wa">>, <<"tai", "shou">> }

YearParts == {<<"gan">>, <<"3", "1">>} \cup {ToDigits(y) : y \in 1..MaxEraYear}

Months == {4, 5, 12}

Days == {1, 30}

EraText(name, year_part, month, day) ==
  name \o year_part \o <<"nen">> \o ToDigits(month) \o <<"gatsu">>
       \o ToDigits(day) \o <<"nichi">>

EraTexts ==
  {EraText(name, yp, m, d) : name \in EraNames, yp \in YearParts, m \in Months, d \in Days}
  \cup { <<>>,
         <<"hei", "sei", "w3", "nen", "4", "gatsu", "1", "nichi">>,
         <<"hei", "sei", "3", "nen", "4", "gatsu">>,
         <<"gan", "nen", "4", "gatsu", "1", "nichi">> }

InitEra == RunInit /\ labels = RunLabels /\ era_text \in EraTexts /\ era_date = NoDate

ParseEra ==
  /\ era_date = NoDate
  /\ era_date' = parse_date_era_str(era_text)
  /\ UNCHANGED <<era_text, labels, runVars>>

NextEra == ParseEra

SpecEra == InitEra /\ [][NextEra]_vars

(***************************************************************************)
(* Properties.                                                             *)
(***************************************************************************)
KeyLess(a, b) == a[1] < b[1] \/ (a[1] = b[1] /\ a[2] < b[2])

CountOfPage(seq, p) == Cardinality({i \in 1..Len(seq) : seq[i][1] = p})

IsRange(seq) == \A i \in 1..Len(seq) : seq[i] = i

\* A step of DispatchInfo (completed, or ended by an error of the arm).
DispatchStep ==
  /\ pc = "info"
  /\ \/ pc' = "info" /\ n_info' = n_info + 1
     \/ pc' = "halted" /\ info_element' # NoInfo

\* A step of EmitFile (the file written, or ended by an error).
EmitStep ==
  /\ pc = "info"
  /\ \/ pc' = "index"
     \/ pc' = "halted" /\ info_element' = NoInfo

\* C1: records are emitted in encounter order (pages ascending, anchors of a
\* page in order, none skipped), and the index is always the sequence of the
\* written files, possibly minus the record whose file has just been written.
C1_EncounterOrder ==
  /\ \A i \in 1..Len(files) :
       /\ files[i][1] \in 1..page_num
       /\ files[i][2] >= 1
       /\ i > 1 => KeyLess(files[i - 1], files[i])
       /\ files[i][2] > 1 => i > 1 /\ files[i - 1] = <<files[i][1], files[i][2] - 1>>
  /\ \/ index = files
     \/ pc \in {"index", "halted"} /\ files = Append(index, <<page_num, li>>)
  /\ pc = "links" => CountOfPage(files, page_num) = li
  /\ pc \in {"page", "done"} /\ page_num >= 1 => CountOfPage(files, page_num) = n_links

C1_Witness == index = << <<1, 1>>, <<1, 2>>, <<2, 1>> >>

C2_Taxonomy ==
  {"fetch", "NoMatch", "ParseInt", "UnknownEra", "link_shape", "link_no_id",
   "panic_expect_href", "panic_unreachable"}

C2_BadLink(l) ==
  \/ TypeNumberAt(l) = 0
  \/ l[TypeNumberAt(l)] \notin {"2", "3", "4", "5", "6", "7"}
  \/ \A k \in 1..Len(l) - 1 : l[k] # "?"

\* C2: every error of the taxonomy ends the run: an error is never recorded
\* without the run being halted, a halted run changes nothing any more, the
\* step that halts writes no file and no index entry, no file or index entry
\* exists for the record the error occurred at or for a later one, and each
\* faulty input (link, missing href, judgment date) does halt the run.
C2_FatalErrors ==
  /\ [](/\ (err # "") <=> (pc = "halted")
        /\ pc = "halted" /\ err \in C2_Taxonomy =>
             /\ \A i \in 1..Len(files) : KeyLess(files[i], <<page_num, li>>)
             /\ \A i \in 1..Len(index) : KeyLess(index[i], <<page_num, li>>))
  /\ [][/\ pc = "halted" => UNCHANGED vars
        /\ pc # "halted" /\ pc' = "halted" /\ err' \in C2_Taxonomy =>
             files' = files /\ index' = index
        /\ pc = "links" /\ li' = li + 1 /\ C2_BadLink(link') => pc' = "halted"
        /\ DispatchStep /\ info_element'.dt = "zenbun" /\ info_element'.dd = NoHref =>
             pc' = "halted"
        /\ EmitStep /\ ~parse_date_era_str(Trim(slots["date_str"])).ok =>
             pc' = "halted"]_vars

C2_Witness ==
  /\ pc = "halted"
  /\ err = "UnknownEra"
  /\ info_element = NoInfo
  /\ Len(index) >= 1

\* C3 (as claimed): a non-empty originating-court date that cannot be parsed
\* does not abort the run.
C3_Original ==
  ~(/\ pc = "halted"
    /\ info_element.dt = "genshin_saiban_nengappi"
    /\ info_element.dd # NoElement
    /\ Trim(info_element.dd) # <<>>
    /\ ~parse_date_era_str(Trim(info_element.dd)).ok)

\* C3 (amended): a non-empty originating-court date that cannot be parsed
\* aborts the run with the parse error and nothing is written for the
\* record; an empty one leaves every slot as it was; a parseable one sets
\* original_date; and a record reaches its file only with a parseable
\* judgment date.
C3_Amended ==
  [][/\ DispatchStep /\ info_element'.dt = "genshin_saiban_nengappi"
          /\ info_element'.dd # NoElement =>
          LET text == Trim(info_element'.dd)
              date == parse_date_era_str(text)
          IN /\ text = <<>> => pc' = "info" /\ slots' = slots
             /\ text # <<>> /\ ~date.ok =>
                  pc' = "halted" /\ err' = date.err /\ files' = files /\ index' = index
             /\ text # <<>> /\ date.ok =>
                  pc' = "info" /\ slots' = [slots EXCEPT !["original_date"] = Some(date)]
     /\ EmitStep /\ pc' = "index" => parse_date_era_str(Trim(slots["date_str"])).ok]_vars

C3_Witness ==
  /\ pc = "halted"
  /\ info_element.dt = "genshin_saiban_nengappi"
  /\ err = "UnknownEra"
  /\ <<page_num, li>> = <<1, 2>>
  /\ files = << <<1, 1>> >>

\* C4 (as claimed): a record whose file has been written has every required
\* field set to a non-default value.
C4_Original ==
  pc = "index" =>
    /\ precedent_data.case_number # <<>>
    /\ precedent_data.case_name # <<>>
    /\ precedent_data.court_name # <<>>
    /\ precedent_data.full_pdf_link # <<>>
    /\ precedent_data.lawsuit_id # <<>>
    /\ precedent_data.detail_page_link # <<>>
    /\ precedent_data.trial_type # ""
    /\ precedent_data.date.ok

C5_Ceil10(n) == CHOOSE k \in 0..n : 10 * k >= n /\ (k = 0 \/ 10 * (k - 1) < n)

\* C5: the count is the leading number of the summary, the page count is
\* ceil(count / 10), and the walk requests the pages 1, 2, ... in ascending
\* order, each once, none beyond the page count and all of them when the run
\* completes.
C5_PageCount ==
  /\ PageQuantity(64297) = 6430
  /\ index_opens = 0 => requested = <<>>
  /\ index_opens = 1 =>
       /\ \E n \in Quantities : all_quantity_text = SummaryText(n) /\ all_quantity = n
       /\ all_page_quantity = C5_Ceil10(all_quantity)
  /\ IsRange(requested)
  /\ Len(requested) <= all_page_quantity
  /\ pc = "done" => Len(requested) = all_page_quantity

C5_Witness == pc = "done" /\ all_quantity = 11 /\ requested = <<1, 2>>

\* C6: an optional text slot is never Some(""), in the slots and in every
\* record written, and dispatching an empty-after-trim value for an optional
\* label leaves the slots as they were.
C6_OptionalNonEmpty ==
  /\ [](/\ \A s \in OptionalText : slots[s].some => slots[s].v # <<>>
        /\ pc = "index" =>
             \A s \in OptionalText :
               \/ precedent_data.optional[s] = None
               \/ precedent_data.optional[s].some /\ precedent_data.optional[s].v # <<>>)
  /\ [][DispatchStep /\ info_element'.dt \in OptionalLabels
          /\ info_element'.dd # NoElement /\ Trim(info_element'.dd) = <<>> =>
          pc' = "info" /\ slots' = slots]_vars

C6_Witness ==
  /\ pc = "index"
  /\ info_element.dt \in OptionalLabels
  /\ Trim(info_element.dd) = <<>>
  /\ precedent_data.optional[SlotOf(info_element.dt)] = None

C7_Changed == {s \in SlotNames : slots'[s] # slots[s]}

\* C7: a completed dispatch changes no slot but the one the label is mapped
\* to (the three court-name labels all map to court_name), a required label
\* sets its slot to the cleaned text, a label outside the table changes no
\* slot, and only a known label can end the run.
C7_OneSlot ==
  [][/\ DispatchStep /\ pc' = "info" =>
          LET dt == info_element'.dt
              text == Trim(info_element'.dd)
          IN /\ Cardinality(C7_Changed) <= 1
             /\ C7_Changed \subseteq {SlotOf(dt)}
             /\ dt \in {"saibansho_mei", "saibansho_mei_bu", "houtei_mei"} =>
                  C7_Changed \subseteq {"court_name"}
                  /\ slots'["court_name"] = remove_line_break(text)
             /\ dt \in {"jiken_bangou", "jiken_mei", "saiban_nengappi"} =>
                  slots'[SlotOf(dt)] = text
             /\ dt \in OptionalLabels /\ text # <<>> => slots'[SlotOf(dt)] = Some(text)
             /\ dt \notin KnownLabels => slots' = slots
     /\ DispatchStep /\ pc' = "halted" => info_element'.dt \in KnownLabels]_vars

C7_Witness ==
  /\ pc = "info"
  /\ n_info = 2
  /\ info_element.dt \in OtherLabels
  /\ slots["court_name"] = <<"a", "b">>
  /\ \A s \in SlotNames \ {"court_name"} : slots[s] = InitSlots[s]

C8_Known == { <<"sho", "wa">>, <<"hei", "sei">>, <<"rei", "wa">> }

C8_Era(name) ==
  CASE name = <<"sho", "wa">> -> "Showa"
    [] name = <<"hei", "sei">> -> "Heisei"
    [] OTHER -> "Reiwa"

C8_BaseYear(name) ==
  CASE name = <<"sho", "wa">> -> 1925
    [] name = <<"hei", "sei">> -> 1988
    [] OTHER -> 2018

C8_Written(year_part) == IF year_part = <<"gan">> THEN 1 ELSE ParseUsize(year_part)

\* C8 (as claimed): for a text <era-name><era_year>nen<month>gatsu<day>nichi
\* with a known era name the result carries that era, the written month and
\* day, and as its year the Gregorian year era_base_year(era) + era_year; any
\* other era name fails as an unknown era.
C8_ParseEraText ==
  era_date # NoDate =>
    \A name \in EraNames, yp \in YearParts, m \in Months, d \in Days :
      era_text = EraText(name, yp, m, d) =>
        IF name \in C8_Known
        THEN /\ era_date.ok
             /\ era_date.era = C8_Era(name)
             /\ era_date.year = C8_BaseYear(name) + C8_Written(yp)
             /\ era_date.month = m
             /\ era_date.day = d
        ELSE ~era_date.ok /\ era_date.err = "UnknownEra"

\* C9 (as claimed): the index is opened once, before the first page is
\* requested, and is flushed exactly once when the run completes and also
\* when an error halts the run after entries were appended.
C9_OpenedAndFlushedOnce ==
  /\ index_opens <= 1
  /\ index_flushes <= 1
  /\ requested # <<>> => index_opens = 1
  /\ pc = "done" => index_flushes = 1
  /\ pc = "halted" /\ err # "io_flush" /\ Len(index) >= 1 => index_flushes = 1

C11_Optional == OptionalText \cup {"original_date"}

\* C11: slots never leak between records: every traversal of a detail page
\* starts with every slot in its initial state (required text slots empty,
\* optional slots absent), whatever the slots held before; an optional slot
\* is present during the traversal, and an optional field is present in the
\* record emitted, only if a dl element of that record's own detail page
\* carried a non-empty value for it.
C11_NoLeak ==
  /\ [](/\ pc = "info" /\ n_info = 0 => slots = InitSlots
        /\ pc = "info" =>
             \A s \in C11_Optional : slots[s].some => s \in present_on_page
        /\ pc = "index" =>
             /\ \A s \in OptionalText :
                  precedent_data.optional[s].some => s \in present_on_page
             /\ precedent_data.original_date.some => "original_date" \in present_on_page)
  /\ [][pc = "links" /\ pc' = "info" =>
          /\ slots' = InitSlots
          /\ \A s \in RequiredText : slots'[s] = <<>>
          /\ \A s \in C11_Optional : ~slots'[s].some]_vars

\* The second record of a page is emitted without any optional field, its
\* page carried none, and the record before it had one.
C11_Witness ==
  /\ pc = "index"
  /\ li = 2
  /\ earlier_present
  /\ n_info >= 1
  /\ present_on_page = {}
  /\ ~HasOptional(precedent_data)

====
